---- MODULE Spec2Model ----
(***************************************************************************)
(* NewsBytes: a Telegram bot that lets a user pick news topics on an       *)
(* inline keyboard, commits them to an in-memory preference map, and sends *)
(* a digest of headlines on commit and on a daily cron tick (src/index.js).*)
(*                                                                         *)
(* Node runs one handler at a time up to its next await, so every action   *)
(* below is one synchronous stretch of a handler: from its arrival (or     *)
(* from the settling of the promise it awaits) to its next await or end.   *)
(***************************************************************************)
EXTENDS Integers, Sequences, FiniteSets, Bags, TLC

(***************************************************************************)
(* Bounds of the model.                                                    *)
(***************************************************************************)
MaxEvents == 3       \* updates (commands, button presses) delivered in one run
MaxInFlight == 2     \* handlers suspended at an await at the same time
MaxSerialEvents == 4 \* updates delivered in a run that handles one at a time
MaxTicks == 1        \* cron ticks in one run
MaxTopics == 3       \* length of the topic list given to fetchMixedNews
MaxItems == 9        \* items one feed returns
MaxDate == 2         \* publish timestamps 1..MaxDate

(***************************************************************************)
(* Program constants.                                                      *)
(***************************************************************************)
AVAILABLE_TOPICS ==
    << "Technology", "Business", "Sports", "Health",
       "Science", "Entertainment", "Crypto", "World News" >>

DigestSize == 8      \* the 8 of Math.ceil(8 / n) and of slice(0, 8)

\* The chats that write to the bot, and the labels their toggle actions carry:
\* /^toggle_(.+)$/ takes any label, the one of a button or another.
Users == 1..2
Labels == {AVAILABLE_TOPICS[1], "Horoscope"}

Range(s) == {s[i] : i \in 1..Len(s)}

NoDup(s) == \A i, j \in 1..Len(s) : i # j => s[i] # s[j]

(***************************************************************************)
(* A JavaScript Set: its elements in insertion order, without duplicates.  *)
(***************************************************************************)
SetHas(s, t) == \E i \in 1..Len(s) : s[i] = t

SetAdd(s, t) == IF SetHas(s, t) THEN s ELSE Append(s, t)

SetDelete(s, t) == SelectSeq(s, LAMBDA x : x # t)

RECURSIVE NewSet(_)
NewSet(arr) ==
    IF arr = << >> THEN << >>
    ELSE SetAdd(NewSet(SubSeq(arr, 1, Len(arr) - 1)), arr[Len(arr)])

ArrayFrom(s) == [i \in 1..Len(s) |-> s[i]]

(***************************************************************************)
(* A JavaScript Map: its entries in insertion order, one per key.          *)
(***************************************************************************)
MapHas(m, k) == \E i \in 1..Len(m) : m[i].key = k

MapGet(m, k) == m[CHOOSE i \in 1..Len(m) : m[i].key = k].value

\* A write that replaces the whole Map by the one entry.
MapSetOnlyEntry(m, k, v) == << [key |-> k, value |-> v] >>

\* A set that keeps the value of a key it already holds.
MapSetKeepsOld(m, k, v) ==
    IF MapHas(m, k) THEN m ELSE Append(m, [key |-> k, value |-> v])

MapSet(m, k, v) ==
    IF MapHas(m, k)
    THEN [i \in 1..Len(m) |-> IF m[i].key = k THEN [key |-> k, value |-> v] ELSE m[i]]
    ELSE Append(m, [key |-> k, value |-> v])

\* A delete that removes nothing.
MapDeleteKeeps(m, k) == m

\* A delete that empties the Map.
MapDeleteAll(m, k) == << >>

MapDelete(m, k) == SelectSeq(m, LAMBDA e : e.key # k)

MapKeys(m) == {m[i].key : i \in 1..Len(m)}

(***************************************************************************)
(* fetchMixedNews and renderTelegramMessage, as functions of the feeds.    *)
(* A feed item is [title, link, pubDate]; a feed outcome is [ok, items],   *)
(* ok = FALSE when parser.parseURL (or reading feed.items) throws.         *)
(***************************************************************************)
Min(a, b) == IF a <= b THEN a ELSE b

Slice(s, n) == SubSeq(s, 1, Min(n, Len(s)))

\* A quota that rounds down.
storiesPerTopicFloor(n) == DigestSize \div n

storiesPerTopic(n) == (DigestSize + n - 1) \div n

TopicArticles(topic, feed, quota) ==
    IF feed.ok
    THEN LET taken == Slice(feed.items, quota)
         IN  [i \in 1..Len(taken) |->
                [topic |-> topic, heading |-> taken[i].title,
                 url |-> taken[i].link, date |-> taken[i].pubDate]]
    ELSE << >>

\* Array.prototype.sort with (a, b) => b.date - a.date: stable, newest first.
InsertByDate(sorted, a) ==
    LET k == Cardinality({i \in 1..Len(sorted) : sorted[i].date >= a.date})
    IN  SubSeq(sorted, 1, k) \o << a >> \o SubSeq(sorted, k + 1, Len(sorted))

RECURSIVE SortNewestFirst(_)
SortNewestFirst(s) ==
    IF s = << >> THEN << >>
    ELSE InsertByDate(SortNewestFirst(SubSeq(s, 1, Len(s) - 1)), s[Len(s)])

RECURSIVE PushAll(_)
PushAll(results) ==
    IF results = << >> THEN << >>
    ELSE PushAll(SubSeq(results, 1, Len(results) - 1)) \o results[Len(results)]

\* A merge that forgets the sort.
MergeTruncateUnsorted(results) == Slice(PushAll(results), DigestSize)

MergeSortTruncate(results) == Slice(SortNewestFirst(PushAll(results)), DigestSize)

MixedNews(topics, feeds) ==
    MergeSortTruncate(
        [i \in 1..Len(topics) |->
            TopicArticles(topics[i], feeds[i], storiesPerTopic(Len(topics)))])

NoMsg == [text |-> "", topics |-> << >>, items |-> << >>]

\* A rendering without the branch for an empty list: header and footer
\* around no article.
renderWithoutEmptyCase(newsData, topics) ==
    [text |-> "Your Daily Digest", topics |-> topics,
     items |-> [i \in 1..Len(newsData) |->
                   [heading |-> newsData[i].heading, url |-> newsData[i].url]]]

renderTelegramMessage(newsData, topics) ==
    IF Len(newsData) = 0
    THEN [text |-> "No news found right now.", topics |-> << >>, items |-> << >>]
    ELSE [text |-> "Your Daily Digest", topics |-> topics,
          items |-> [i \in 1..Len(newsData) |->
                        [heading |-> newsData[i].heading, url |-> newsData[i].url]]]

FailedFeed == [ok |-> FALSE, items |-> << >>]

\* The item at position j of a feed whose dates are ds.
FeedOf(ds) ==
    [ok |-> TRUE, items |-> [j \in 1..Len(ds) |-> [title |-> j, link |-> j, pubDate |-> ds[j]]]]

\* Feed outcomes the send pipeline of the bot is run against: every topic
\* fails, every topic answers with no item, the first fails and the others
\* answer with no item, or every topic answers with one item.
PipelineFeeds(n) ==
    { [i \in 1..n |-> FailedFeed],
      [i \in 1..n |-> FeedOf(<< >>)],
      [i \in 1..n |-> IF i = 1 THEN FailedFeed ELSE FeedOf(<< >>)],
      [i \in 1..n |-> FeedOf(<< ((i - 1) % MaxDate) + 1 >>)] }

(***************************************************************************)
(* State of the bot.                                                       *)
(*   userPreferences   Map chatId -> Array of topics                       *)
(*   selectionSession  Map chatId -> Set of topics                         *)
(*   handlers          the handlers suspended at an await, as a bag        *)
(*   completed         the handler that ended in the last step, if any     *)
(*   nEvents, nTicks   updates and ticks delivered so far                  *)
(*   limits            how many updates the run delivers, and how many     *)
(*                     handlers the environment lets overlap               *)
(*   lastToggle        per user: the toggle that was the user's last       *)
(*                     update, if it was one (see Toggled)                 *)
(*   expected          per user: the selection that the user's updates so  *)
(*                     far give when applied one after another             *)
(***************************************************************************)
VARIABLES userPreferences, selectionSession, handlers, completed,
          nEvents, nTicks, limits, lastToggle, expected,
          ftopics, fresults, fstatus, fover, fpc, fret

botVars == << userPreferences, selectionSession, handlers, completed,
              nEvents, nTicks, limits, lastToggle, expected >>
fetchVars == << ftopics, fresults, fstatus, fover, fpc, fret >>
vars == << userPreferences, selectionSession, handlers, completed,
           nEvents, nTicks, limits, lastToggle, expected,
           ftopics, fresults, fstatus, fover, fpc, fret >>

NoHandler ==
    [op |-> "none", chatId |-> 0, topic |-> "", pc |-> "none", edit |-> "none",
     calls |-> << >>, pipeline |-> << >>, idx |-> 0, topics |-> << >>, msg |-> NoMsg]

NewHandler(op, chatId, topic) ==
    [NoHandler EXCEPT !.op = op, !.chatId = chatId, !.topic = topic, !.pc = "start"]

Terminal(h) == h.pc \in {"done", "thrown"}

SessionSet(m, u) == IF MapHas(m, u) THEN Range(MapGet(m, u)) ELSE {}

\* No toggle, and the record of a toggle of topic t: the selection before it,
\* whether the update before it was a toggle of t too, and if so (twice) the
\* selection before that one (origin).
NoToggle == [topic |-> "", before |-> {}, twice |-> FALSE, origin |-> {}]

Toggled(last, t, before) ==
    [topic |-> t, before |-> before,
     twice |-> (last.topic = t),
     origin |-> IF last.topic = t THEN last.before ELSE {}]

Flip(S, t) == IF t \in S THEN S \ {t} ELSE S \cup {t}

\* The suspended handler h moves to r: it stays suspended, or it has ended.
Settle(h, r) ==
    IF Terminal(r)
    THEN /\ handlers' = handlers (-) SetToBag({h})
         /\ completed' = r
    ELSE /\ handlers' = (handlers (-) SetToBag({h})) (+) SetToBag({r})
         /\ completed' = NoHandler

\* A handler arrives and runs to its first await (r), or to its end.
Arrive(r) ==
    IF Terminal(r)
    THEN /\ handlers' = handlers
         /\ completed' = r
    ELSE /\ handlers' = handlers (+) SetToBag({r})
         /\ completed' = NoHandler

CanArrive == nEvents < limits.events /\ BagCardinality(handlers) < limits.inflight

(***************************************************************************)
(* sendDigestToUser(chatId), up to its first await.                        *)
(***************************************************************************)
\* A send pipeline that reads the selection in progress instead of the record.
sendDigestFromSession(h, chatId) ==
    LET topics == IF MapHas(selectionSession, chatId)
                  THEN MapGet(selectionSession, chatId) ELSE << >>
        g == [h EXCEPT !.pipeline = Append(@, chatId), !.topics = topics]
    IN  IF Len(topics) = 0
        THEN [g EXCEPT !.calls = Append(@, "sendMessage:setup"), !.pc = "sendMessage:setup"]
        ELSE [g EXCEPT !.calls = Append(@, "sendMessage:fetching"),
                       !.pc = "sendMessage:fetching"]

sendDigestToUser(h, chatId) ==
    LET topics == IF MapHas(userPreferences, chatId)
                  THEN MapGet(userPreferences, chatId) ELSE << >>
        g == [h EXCEPT !.pipeline = Append(@, chatId), !.topics = topics]
    IN  IF Len(topics) = 0
        THEN [g EXCEPT !.calls = Append(@, "sendMessage:setup"), !.pc = "sendMessage:setup"]
        ELSE [g EXCEPT !.calls = Append(@, "sendMessage:fetching"),
                       !.pc = "sendMessage:fetching"]

\* sendDigestToUser rejected: neither caller catches.
SendThrew(h) == [h EXCEPT !.pc = "thrown"]

\* sendDigestToUser resolved: done_selection ends, the cron loop goes on
\* with the next entry of the live Map iterator.
SendReturned(h) ==
    IF h.op = "cron"
    THEN LET n == h.idx + 1
         IN  IF n <= Len(userPreferences)
             THEN sendDigestToUser([h EXCEPT !.idx = n], userPreferences[n].key)
             ELSE [h EXCEPT !.idx = n, !.pc = "done"]
    ELSE [h EXCEPT !.pc = "done"]

(***************************************************************************)
(* bot.start / bot.command('update'): showMenu.                            *)
(***************************************************************************)
\* An entry command that resumes the selection in progress, if there is one.
showMenuKeepsSession(chatId) ==
    LET existingTopics == IF MapHas(userPreferences, chatId)
                          THEN MapGet(userPreferences, chatId) ELSE << >>
        initialSet == IF MapHas(selectionSession, chatId)
                      THEN MapGet(selectionSession, chatId)
                      ELSE NewSet(existingTopics)
    IN  /\ selectionSession' = MapSet(selectionSession, chatId, initialSet)
        /\ UNCHANGED userPreferences

showMenu(chatId) ==
    LET existingTopics == IF MapHas(userPreferences, chatId)
                          THEN MapGet(userPreferences, chatId) ELSE << >>
        initialSet == NewSet(existingTopics)
    IN  /\ selectionSession' = MapSet(selectionSession, chatId, initialSet)
        /\ UNCHANGED userPreferences

EntryCommand(u) ==
    /\ nEvents < limits.events
    /\ \E cmd \in {"start", "update"} : showMenu(u)
    /\ nEvents' = nEvents + 1
    /\ lastToggle' = [lastToggle EXCEPT ![u] = NoToggle]
    /\ expected' = [expected EXCEPT ![u] =
                       IF MapHas(userPreferences, u)
                       THEN Range(MapGet(userPreferences, u)) ELSE {}]
    /\ completed' = NoHandler
    /\ UNCHANGED << handlers, nTicks, limits, fetchVars >>

(***************************************************************************)
(* bot.action(/^toggle_(.+)$/)                                             *)
(***************************************************************************)
\* A toggle that only ever adds.
ToggleOnlyAdds(selected, topic) == SetAdd(selected, topic)

\* A toggle that starts from a fresh Set instead of the session's Set.
ToggleFromFreshSet(selected, topic) == SetAdd(NewSet(<< >>), topic)

ToggleSelected(selected, topic) ==
    IF SetHas(selected, topic) THEN SetDelete(selected, topic)
    ELSE SetAdd(selected, topic)

\* A toggle that, without a session, starts from the user's record.
SelectedOrSeeded(session, chatId) ==
    IF MapHas(session, chatId) THEN MapGet(session, chatId)
    ELSE IF MapHas(userPreferences, chatId)
         THEN NewSet(MapGet(userPreferences, chatId)) ELSE NewSet(<< >>)

\* selectionSession.get(chatId) || new Set()
SelectedOrNew(session, chatId) ==
    IF MapHas(session, chatId) THEN MapGet(session, chatId) ELSE NewSet(<< >>)

ToggleAction(u, t) ==
    /\ CanArrive
    /\ LET selected == SelectedOrNew(selectionSession, u)
       IN  selectionSession' = MapSet(selectionSession, u, ToggleSelected(selected, t))
    /\ Arrive([NewHandler("toggle", u, t) EXCEPT
                  !.calls = << "editMessageReplyMarkup" >>,
                  !.pc = "editMessageReplyMarkup"])
    /\ nEvents' = nEvents + 1
    /\ lastToggle' = [lastToggle EXCEPT ![u] =
                         Toggled(@, t, SessionSet(selectionSession, u))]
    /\ expected' = [expected EXCEPT ![u] = Flip(@, t)]
    /\ UNCHANGED << userPreferences, nTicks, limits, fetchVars >>

\* The in-place update without its try/catch.
AfterEditMarkupUncaught(h, ok) ==
    IF ok
    THEN [h EXCEPT !.edit = "ok", !.calls = Append(@, "answerCbQuery"),
                   !.pc = "answerCbQuery"]
    ELSE [h EXCEPT !.edit = "failed", !.pc = "thrown"]

\* try { await ctx.editMessageReplyMarkup(...) } catch (e) {} ; ctx.answerCbQuery()
AfterEditMarkup(h, ok) ==
    [h EXCEPT !.edit = IF ok THEN "ok" ELSE "failed",
              !.calls = Append(@, "answerCbQuery"),
              !.pc = "answerCbQuery"]

EditMarkupSettles(h, ok) ==
    /\ h \in BagToSet(handlers)
    /\ h.pc = "editMessageReplyMarkup"
    /\ Settle(h, AfterEditMarkup(h, ok))
    /\ UNCHANGED << userPreferences, selectionSession, nEvents, nTicks, lastToggle, expected,
                    limits, fetchVars >>

\* await ctx.answerCbQuery() / return ctx.answerCbQuery("Select at least one!")
AnswerSettles(h, ok) ==
    /\ h \in BagToSet(handlers)
    /\ h.pc = "answerCbQuery"
    /\ Settle(h, [h EXCEPT !.pc = IF ok THEN "done" ELSE "thrown"])
    /\ UNCHANGED << userPreferences, selectionSession, nEvents, nTicks, lastToggle, expected,
                    limits, fetchVars >>

(***************************************************************************)
(* bot.action("done_selection")                                            *)
(***************************************************************************)
\* A guard that forgets the size test.
NothingSelectedAbsentOnly(session, chatId) == ~MapHas(session, chatId)

\* !selected || selected.size === 0
NothingSelected(session, chatId) ==
    \/ ~MapHas(session, chatId)
    \/ Len(MapGet(session, chatId)) = 0

DoneSelection(u) ==
    /\ CanArrive
    /\ IF NothingSelected(selectionSession, u)
       THEN /\ Arrive([NewHandler("done", u, "") EXCEPT
                          !.calls = << "answerCbQuery:Select at least one!" >>,
                          !.pc = "answerCbQuery"])
            /\ UNCHANGED << userPreferences, selectionSession >>
       ELSE /\ userPreferences' =
                   MapSet(userPreferences, u, ArrayFrom(MapGet(selectionSession, u)))
            /\ selectionSession' = MapDelete(selectionSession, u)
            /\ Arrive([NewHandler("done", u, "") EXCEPT
                          !.calls = << "editMessageText" >>,
                          !.pc = "editMessageText"])
    /\ nEvents' = nEvents + 1
    /\ lastToggle' = [lastToggle EXCEPT ![u] = NoToggle]
    /\ expected' = [expected EXCEPT ![u] =
                       IF NothingSelected(selectionSession, u) THEN @ ELSE {}]
    /\ UNCHANGED << nTicks, limits, fetchVars >>

\* await ctx.editMessageText(...); await sendDigestToUser(chatId)
AfterEditText(h, ok) ==
    IF ok THEN sendDigestToUser([h EXCEPT !.edit = "ok"], h.chatId)
    ELSE [h EXCEPT !.edit = "failed", !.pc = "thrown"]

EditTextSettles(h, ok) ==
    /\ h \in BagToSet(handlers)
    /\ h.pc = "editMessageText"
    /\ Settle(h, AfterEditText(h, ok))
    /\ UNCHANGED << userPreferences, selectionSession, nEvents, nTicks, lastToggle, expected,
                    limits, fetchVars >>

(***************************************************************************)
(* The awaits of sendDigestToUser.                                         *)
(***************************************************************************)
AfterSendMessage(h, ok) ==
    IF ~ok THEN SendThrew(h)
    ELSE IF h.pc = "sendMessage:fetching" THEN [h EXCEPT !.pc = "fetchMixedNews"]
    ELSE SendReturned(h)

SendMessageSettles(h, ok) ==
    /\ h \in BagToSet(handlers)
    /\ h.pc \in {"sendMessage:setup", "sendMessage:fetching", "sendMessage:final"}
    /\ Settle(h, AfterSendMessage(h, ok))
    /\ UNCHANGED << userPreferences, selectionSession, nEvents, nTicks, lastToggle, expected,
                    limits, fetchVars >>

\* fetchMixedNews resolved: render, and send the final message.
AfterFetch(h, feeds) ==
    [h EXCEPT !.msg = renderTelegramMessage(MixedNews(h.topics, feeds), h.topics),
              !.calls = Append(@, "sendMessage:final"),
              !.pc = "sendMessage:final"]

FetchSettles(h) ==
    /\ h \in BagToSet(handlers)
    /\ h.pc = "fetchMixedNews"
    /\ \E feeds \in PipelineFeeds(Len(h.topics)) :
           Settle(h, AfterFetch(h, feeds))
    /\ UNCHANGED << userPreferences, selectionSession, nEvents, nTicks, lastToggle, expected,
                    limits, fetchVars >>

(***************************************************************************)
(* cron.schedule('0 9 * * *', ...)                                         *)
(***************************************************************************)
\* A tick that walks the chats with a selection in progress.
CronStartFromSessions(h) ==
    IF Len(selectionSession) >= 1
    THEN sendDigestToUser([h EXCEPT !.idx = 1], selectionSession[1].key)
    ELSE [h EXCEPT !.idx = 1, !.pc = "done"]

CronStart(h) ==
    IF Len(userPreferences) >= 1
    THEN sendDigestToUser([h EXCEPT !.idx = 1], userPreferences[1].key)
    ELSE [h EXCEPT !.idx = 1, !.pc = "done"]

CronTick ==
    /\ nTicks < MaxTicks
    /\ BagCardinality(handlers) < limits.inflight
    /\ Arrive(CronStart(NewHandler("cron", 0, "")))
    /\ nTicks' = nTicks + 1
    /\ UNCHANGED << userPreferences, selectionSession, nEvents, lastToggle, expected,
                    limits, fetchVars >>

(***************************************************************************)
(* fetchMixedNews(topics), one promise per topic.                          *)
(*   ftopics   the argument                                                *)
(*   fstatus   per topic: "none", "pending", "ok" (feed parsed), "failed"  *)
(*             (error caught), "rejected" (promise rejected)               *)
(*   fresults  per topic: what its promise was fulfilled with              *)
(*   fover     per topic: the feed held more items than the quota          *)
(*   fpc       "called", "awaitAll" (at await Promise.all), "returned",    *)
(*             "thrown"                                                    *)
(*   fret      the returned array                                          *)
(***************************************************************************)
FetchTopicLists == {SubSeq(AVAILABLE_TOPICS, 1, n) : n \in 1..Min(MaxTopics, 8)}

\* The publish dates of the items of a feed, in feed order: up to MaxItems
\* dates that stay equal (step 0) or cycle through 1..MaxDate (step 1).
DateSeqs ==
    { [j \in 1..n |-> ((start + step * (j - 1)) % MaxDate) + 1] :
        n \in 0..MaxItems, start \in 0..(MaxDate - 1), step \in 0..1 }

\* topics.map(async (topic) => ...): every promise is created, none awaited.
FetchStart ==
    /\ fpc = "called"
    /\ fstatus' = [i \in 1..Len(ftopics) |-> "pending"]
    /\ fpc' = "awaitAll"
    /\ UNCHANGED << ftopics, fresults, fover, fret, botVars >>

\* The promise of one topic: fulfilled with the articles of the feed, or the
\* error is caught and the promise is fulfilled with [].
TopicFulfilled(topic, feed, quota) ==
    [status |-> "ok", articles |-> TopicArticles(topic, feed, quota)]

\* A topic whose error is not caught: its promise rejects.
TopicUncaught(topic) == [status |-> "rejected", articles |-> << >>]

TopicCaught(topic) == [status |-> "failed", articles |-> << >>]

\* parser.parseURL resolved with a feed: slice and map.
TopicResolves(i) ==
    /\ fpc = "awaitAll"
    /\ i \in 1..Len(ftopics)
    /\ fstatus[i] = "pending"
    /\ \E ds \in DateSeqs :
         LET p == TopicFulfilled(ftopics[i], FeedOf(ds), storiesPerTopic(Len(ftopics)))
         IN  /\ fresults' = [fresults EXCEPT ![i] = p.articles]
             /\ fstatus' = [fstatus EXCEPT ![i] = p.status]
             /\ fover' = [fover EXCEPT ![i] = Len(ds) > storiesPerTopic(Len(ftopics))]
    /\ UNCHANGED << ftopics, fpc, fret, botVars >>

\* parser.parseURL rejected, or the feed has no items array.
TopicFails(i) ==
    /\ fpc = "awaitAll"
    /\ i \in 1..Len(ftopics)
    /\ fstatus[i] = "pending"
    /\ LET p == TopicCaught(ftopics[i])
       IN  /\ fresults' = [fresults EXCEPT ![i] = p.articles]
           /\ fstatus' = [fstatus EXCEPT ![i] = p.status]
    /\ UNCHANGED << ftopics, fover, fpc, fret, botVars >>

\* A join that goes on as soon as one promise has settled.
FetchJoinOnFirst ==
    /\ fpc = "awaitAll"
    /\ \E i \in 1..Len(ftopics) : fstatus[i] \in {"ok", "failed", "rejected"}
    /\ fpc' = "returned"
    /\ fret' = MergeSortTruncate(fresults)
    /\ UNCHANGED << ftopics, fresults, fstatus, fover, botVars >>

\* await Promise.all(promises): rejects if a promise rejected; otherwise
\* push, sort, slice, return.
FetchJoin ==
    /\ fpc = "awaitAll"
    /\ \A i \in 1..Len(ftopics) : fstatus[i] \in {"ok", "failed", "rejected"}
    /\ IF \E i \in 1..Len(ftopics) : fstatus[i] = "rejected"
       THEN fpc' = "thrown" /\ fret' = << >>
       ELSE fpc' = "returned" /\ fret' = MergeSortTruncate(fresults)
    /\ UNCHANGED << ftopics, fresults, fstatus, fover, botVars >>

(***************************************************************************)
(* Specifications.                                                         *)
(***************************************************************************)
BotInit(events, inflight) ==
    /\ limits = [events |-> events, inflight |-> inflight]
    /\ userPreferences = << >>
    /\ selectionSession = << >>
    /\ handlers = EmptyBag
    /\ completed = NoHandler
    /\ nEvents = 0
    /\ nTicks = 0
    /\ lastToggle = [u \in Users |-> NoToggle]
    /\ expected = [u \in Users |-> {}]

FetchCalled(topics) ==
    /\ ftopics = topics
    /\ fstatus = [i \in 1..Len(topics) |-> "none"]
    /\ fresults = [i \in 1..Len(topics) |-> << >>]
    /\ fover = [i \in 1..Len(topics) |-> FALSE]
    /\ fpc = "called"
    /\ fret = << >>

Init == BotInit(MaxEvents, MaxInFlight) /\ FetchCalled(<< >>)

Next ==
    \/ \E u \in Users : EntryCommand(u)
    \/ \E u \in Users, t \in Labels : ToggleAction(u, t)
    \/ \E u \in Users : DoneSelection(u)
    \/ CronTick
    \/ \E h \in BagToSet(handlers), ok \in BOOLEAN : EditMarkupSettles(h, ok)
    \/ \E h \in BagToSet(handlers), ok \in BOOLEAN : AnswerSettles(h, ok)
    \/ \E h \in BagToSet(handlers), ok \in BOOLEAN : EditTextSettles(h, ok)
    \/ \E h \in BagToSet(handlers), ok \in BOOLEAN : SendMessageSettles(h, ok)
    \/ \E h \in BagToSet(handlers) : FetchSettles(h)

Spec == Init /\ [][Next]_vars

\* The bot when the transport hands it one update or tick at a time.
SerialInit == BotInit(MaxSerialEvents, 1) /\ FetchCalled(<< >>)

SpecSerial == SerialInit /\ [][Next]_vars

FetchInit == BotInit(0, 0) /\ \E topics \in FetchTopicLists : FetchCalled(topics)

FetchNext ==
    \/ FetchStart
    \/ \E i \in 1..MaxTopics : TopicResolves(i)
    \/ \E i \in 1..MaxTopics : TopicFails(i)
    \/ FetchJoin

SpecFetch == FetchInit /\ [][FetchNext]_vars

(***************************************************************************)
(* Properties.                                                             *)
(***************************************************************************)
\* The handlers there are to look at: those suspended, and the one that ended
\* in the last step.
Seen == BagToSet(handlers) \cup ({completed} \ {NoHandler})

WarningNotice == "answerCbQuery:Select at least one!"

Rejected(h) == h.op = "done" /\ h.calls[1] = WarningNotice

Committed(h) == h.op = "done" /\ h.calls[1] = "editMessageText"

\* C1: every Preference Record in the Preference Store holds at least one
\* topic, in every reachable state.
C1_RecordsNonEmpty ==
    \A i \in 1..Len(userPreferences) : Len(userPreferences[i].value) >= 1

\* A record is in the store, the user has opened a new session since, and the
\* scheduler has run.
C1_Witness ==
    \E u \in Users :
        /\ MapHas(userPreferences, u)
        /\ MapHas(selectionSession, u)
        /\ nTicks >= 1

\* C2: a commit for a user whose session is absent or empty is rejected: the
\* warning notice is the handler's one call, the Preference Store and the
\* sessions stay as they are, and the handler never invokes the send pipeline.
C2_EmptyCommitRejected ==
    /\ [][\A u \in Users :
            (DoneSelection(u) /\ SessionSet(selectionSession, u) = {}) =>
                /\ userPreferences' = userPreferences
                /\ selectionSession' = selectionSession
                /\ \E h \in BagToSet(handlers') :
                      /\ handlers' = handlers (+) SetToBag({h})
                      /\ Rejected(h) /\ h.chatId = u /\ h.pc = "answerCbQuery"]_vars
    /\ [](\A h \in Seen : Rejected(h) => h.calls = << WarningNotice >> /\ h.pipeline = << >>)

\* A rejected commit has run to its end for a user who has a record (so there
\* was a record to leave unchanged) and no session.
C2_Witness ==
    /\ Rejected(completed)
    /\ MapHas(userPreferences, completed.chatId)
    /\ ~MapHas(selectionSession, completed.chatId)

\* C3: a commit for a user whose session is a non-empty set S leaves in the
\* Preference Store, for that user, a duplicate-free sequence of exactly the
\* topics of S, and leaves the user without a session.
C3_CommitWritesSelection ==
    [][\A u \in Users :
         (DoneSelection(u) /\ SessionSet(selectionSession, u) # {}) =>
             /\ MapHas(userPreferences', u)
             /\ NoDup(MapGet(userPreferences', u))
             /\ Range(MapGet(userPreferences', u)) = SessionSet(selectionSession, u)
             /\ ~MapHas(selectionSession', u)
             /\ \E h \in BagToSet(handlers') :
                   /\ handlers' = handlers (+) SetToBag({h})
                   /\ Committed(h) /\ h.chatId = u /\ h.pc = "editMessageText"]_vars

\* A commit of a two-topic selection went through: the user has a record of
\* two topics and no session, and the handler waits for its confirmation edit.
C3_Witness ==
    \E h \in BagToSet(handlers) :
        /\ Committed(h)
        /\ h.pc = "editMessageText"
        /\ MapHas(userPreferences, h.chatId)
        /\ Len(MapGet(userPreferences, h.chatId)) = 2
        /\ ~MapHas(selectionSession, h.chatId)

\* C4: when a user's last two updates are toggles of the same topic, the
\* user's selection is the set it was before the two (absent = empty).
C4_ToggleSelfInverse ==
    \A u \in Users :
        lastToggle[u].twice => SessionSet(selectionSession, u) = lastToggle[u].origin

\* A topic was toggled twice in a row on a non-empty selection.
C4_Witness ==
    \E u \in Users : lastToggle[u].twice /\ lastToggle[u].origin # {}

\* C9: whatever toggle handlers are suspended at their awaits, a user's
\* selection is what the user's updates give when applied one after another
\* in arrival order.
C9_NoToggleLost ==
    \A u \in Users : SessionSet(selectionSession, u) = expected[u]

\* Two toggle handlers of one user are suspended at the same time, one at the
\* in-place update and one at the acknowledgement.
C9_Witness ==
    \E g, h \in BagToSet(handlers) :
        /\ g.op = "toggle" /\ h.op = "toggle"
        /\ g.chatId = h.chatId
        /\ g.pc = "answerCbQuery"
        /\ h.pc = "editMessageReplyMarkup"
        /\ Cardinality(expected[g.chatId]) = 2

\* C10: a toggle handler that is past the in-place update, failed or not, has
\* sent the acknowledgement; and the topic of a user's last toggle has changed
\* sides in the user's selection.
C10_ToggleSurvivesEditFailure ==
    /\ \A h \in Seen :
          (h.op = "toggle" /\ h.pc # "editMessageReplyMarkup") =>
              /\ h.edit \in {"ok", "failed"}
              /\ h.calls = << "editMessageReplyMarkup", "answerCbQuery" >>
    /\ \A u \in Users :
          lastToggle[u].topic # "" =>
              (lastToggle[u].topic \in SessionSet(selectionSession, u))
                  # (lastToggle[u].topic \in lastToggle[u].before)

\* A toggle handler whose in-place update failed has ended normally, and its
\* topic is in the selection.
C10_Witness ==
    /\ completed.op = "toggle"
    /\ completed.edit = "failed"
    /\ completed.pc = "done"
    /\ lastToggle[completed.chatId].topic = completed.topic
    /\ completed.topic \in SessionSet(selectionSession, completed.chatId)

\* The results of the topics whose fetch succeeded, in topic order.
RECURSIVE SucceededResults(_)
SucceededResults(n) ==
    IF n = 0 THEN << >>
    ELSE IF fstatus[n] = "ok" THEN Append(SucceededResults(n - 1), fresults[n])
    ELSE SucceededResults(n - 1)

IndexOfTopic(topic) == CHOOSE i \in 1..Len(ftopics) : ftopics[i] = topic

\* C5: what fetchMixedNews returns has at most 8 articles, each no older than
\* the one after it.
C5_AtMostEightNewestFirst ==
    fpc = "returned" =>
        /\ Len(fret) <= 8
        /\ \A i, j \in 1..Len(fret) : i < j => fret[i].date >= fret[j].date

\* A call returned 8 articles of different dates out of more than 8 collected,
\* one feed having held more items than the quota.
C5_Witness ==
    /\ fpc = "returned"
    /\ Len(PushAll(fresults)) > 8
    /\ \E i \in 1..Len(ftopics) : fover[i]
    /\ Len(fret) = 8
    /\ fret[1].date > fret[8].date

\* C6: a call of fetchMixedNews never ends by throwing, whichever topics
\* failed; what it returns holds no article of a failed topic and is the
\* merge, sort and truncation of the results of the topics that succeeded.
C6_FailuresIsolated ==
    /\ fpc # "thrown"
    /\ fpc = "returned" =>
          /\ \A k \in 1..Len(fret) : fstatus[IndexOfTopic(fret[k].topic)] = "ok"
          /\ fret = Slice(SortNewestFirst(PushAll(SucceededResults(Len(ftopics)))), 8)

\* A call returned articles although a topic failed before another succeeded.
C6_Witness ==
    /\ fpc = "returned"
    /\ \E i, j \in 1..Len(ftopics) :
          i < j /\ fstatus[i] = "failed" /\ fstatus[j] = "ok" /\ Len(fresults[j]) >= 2
    /\ Len(fret) >= 2

\* C6, all topics failed: the call returned the empty array.
C6_WitnessAllFailed ==
    /\ fpc = "returned"
    /\ Len(ftopics) >= 2
    /\ \A i \in 1..Len(ftopics) : fstatus[i] = "failed"
    /\ fret = << >>

\* C7: a cron tick that has ended has invoked the send pipeline for every
\* user of the Preference Store, whether a send failed or not.
C7_TickVisitsEveryUser ==
    completed.op = "cron" => MapKeys(userPreferences) \subseteq Range(completed.pipeline)

\* C8: a commit handler that wrote the Preference Store and has ended has
\* invoked the send pipeline for its user.
C8_CommitThenSend ==
    \A u \in Users :
        (Committed(completed) /\ completed.chatId = u) => completed.pipeline = << u >>

(***************************************************************************)
(* Opening the topic menu.                                                 *)
(***************************************************************************)
\* The topics of the user's record, none when the user has no record.
RecordSet(m, u) == IF MapHas(m, u) THEN Range(MapGet(m, u)) ELSE {}

\* C11: an entry command (/start or /update) of a user sets the user's
\* session to exactly the topics of the user's record at that moment, or to
\* the empty set when the user has no record; whatever the session held
\* before (toggles not yet committed) is replaced, and after a commit the
\* menu opens on the committed topics.
C11_EntrySeedsFromRecord ==
    [][\A u \in Users :
         EntryCommand(u) =>
             /\ MapHas(selectionSession', u)
             /\ NoDup(MapGet(selectionSession', u))
             /\ Range(MapGet(selectionSession', u)) = RecordSet(userPreferences, u)
             /\ userPreferences' = userPreferences]_vars

\* A user with a record whose last update opened the menu: the session holds
\* the committed topics (a commit would have removed the session, a rejected
\* commit would have left it empty).
C11_Witness ==
    \E u \in Users :
        /\ MapHas(userPreferences, u)
        /\ MapHas(selectionSession, u)
        /\ SessionSet(selectionSession, u) # {}
        /\ SessionSet(selectionSession, u) = Range(MapGet(userPreferences, u))
        /\ lastToggle[u] = NoToggle

(***************************************************************************)
(* A digest request that finds nothing.                                    *)
(***************************************************************************)
NoNewsMessage == [text |-> "No news found right now.", topics |-> << >>, items |-> << >>]

\* Every topic's fetch failed or answered with no item.
NothingFetched(feeds) ==
    \A i \in DOMAIN feeds : ~feeds[i].ok \/ feeds[i].items = << >>

\* C12: when the send pipeline runs for a user with preferences and every
\* topic's fetch fails or returns nothing, the final message is the fixed
\* "no news found" message, the same whatever the user's topics are; no
\* final message is a digest (header and footer) around no article.
C12_NothingFetchedNoNews ==
    /\ \A h \in BagToSet(handlers) :
          h.pc = "fetchMixedNews" =>
              \A feeds \in PipelineFeeds(Len(h.topics)) :
                  NothingFetched(feeds) =>
                      /\ AfterFetch(h, feeds).msg = NoNewsMessage
                      /\ AfterFetch(h, feeds).pc = "sendMessage:final"
    /\ \A h \in Seen :
          h.msg # NoMsg =>
              /\ h.topics # << >>
              /\ h.msg.items = << >> => h.msg = NoNewsMessage
              /\ h.msg.text = "Your Daily Digest" => h.msg.items # << >>

\* A pipeline that ended after delivering the "no news found" message to a
\* user with preferences.
C12_Witness ==
    /\ completed.pc = "done"
    /\ completed.topics # << >>
    /\ completed.msg = NoNewsMessage
    /\ completed.calls[Len(completed.calls)] = "sendMessage:final"

(***************************************************************************)
(* The quota of a topic.                                                   *)
(***************************************************************************)
\* The least whole number of stories that, taken from each of n topics,
\* gives 8 or more.
CeilingOfEightOver(n) == CHOOSE q \in 1..8 : q * n >= 8 /\ (q - 1) * n < 8

CountOfTopic(news, topic) ==
    Cardinality({k \in 1..Len(news) : news[k].topic = topic})

\* C13: with n >= 1 topics the quota of a topic is the ceiling of 8 / n: no
\* topic contributes more than that many articles, and the returned digest
\* holds at most that many articles of any one topic.  With a single topic
\* the quota is 8 and the digest is every article taken from that topic's
\* feed, 8 of them when the feed held more.
C13_QuotaIsCeiling ==
    LET n == Len(ftopics)
        q == CeilingOfEightOver(n)
    IN  /\ storiesPerTopic(n) = q
        /\ \A i \in 1..n :
              /\ Len(fresults[i]) <= q
              /\ fover[i] => Len(fresults[i]) = q
        /\ fpc = "returned" =>
              \A i \in 1..n : CountOfTopic(fret, ftopics[i]) <= q
        /\ (fpc = "returned" /\ n = 1) =>
              /\ q = 8
              /\ Len(fret) = Len(fresults[1])
              /\ {fret[k].heading : k \in 1..Len(fret)} = 1..Len(fret)
              /\ fover[1] => Len(fret) = 8

\* Three topics, quota 3: a feed held more than 3 items and exactly 3 of its
\* articles are in the returned digest.
C13_Witness ==
    /\ fpc = "returned"
    /\ Len(ftopics) = 3
    /\ \E i \in 1..3 : fover[i] /\ CountOfTopic(fret, ftopics[i]) = 3

\* C13, a single topic whose feed held more than 8 items: 8 are returned.
C13_WitnessSingleTopic ==
    /\ fpc = "returned"
    /\ Len(ftopics) = 1
    /\ fover[1]
    /\ Len(fret) = 8

(***************************************************************************)
(* Who is sent a digest.                                                   *)
(***************************************************************************)
PipelineStages == {"sendMessage:fetching", "fetchMixedNews", "sendMessage:final"}

\* C14: no fetch and no digest delivery is ever performed for a user with
\* no Preference Record: every user the send pipeline was invoked for, by a
\* commit or by a scheduled tick, has a record, and a pipeline that is
\* fetching or delivering works on one topic at least.  A user who never
\* committed is never visited.
C14_OnlyUsersWithRecord ==
    \A h \in Seen :
        /\ \A k \in 1..Len(h.pipeline) : MapHas(userPreferences, h.pipeline[k])
        /\ h.pc \in PipelineStages =>
              /\ h.pipeline # << >>
              /\ h.topics # << >>
        /\ \A k \in 1..Len(h.calls) :
              h.calls[k] \in PipelineStages => h.pipeline # << >>

\* A tick ended after visiting a user, while another user, who has opened a
\* selection but never committed, was not visited.
C14_Witness ==
    /\ completed.op = "cron"
    /\ completed.pc = "done"
    /\ completed.pipeline # << >>
    /\ \E v \in Users :
          /\ ~MapHas(userPreferences, v)
          /\ SessionSet(selectionSession, v) # {}
          /\ \A k \in 1..Len(completed.pipeline) : completed.pipeline[k] # v

(***************************************************************************)
(* Fan-out and fan-in of one digest request.                               *)
(***************************************************************************)
Settled == {"ok", "failed", "rejected"}

\* C15: within one digest request every topic's fetch is started without
\* waiting for another topic's fetch to complete (no topic is still to be
\* started once a topic has settled, and a topic can settle while any other
\* is pending), and merging, sorting and truncation begin only after every
\* topic's fetch has completed or failed.
C15_FanOutFanIn ==
    LET n == Len(ftopics)
    IN  /\ (\E i \in 1..n : fstatus[i] # "none") => \A j \in 1..n : fstatus[j] # "none"
        /\ fpc = "called" <=> \E i \in 1..n : fstatus[i] = "none"
        /\ fpc \in {"returned", "thrown"} => \A i \in 1..n : fstatus[i] \in Settled
        /\ fpc # "returned" => fret = << >>

\* The fetch of the last of three topics has completed while the fetch of
\* the first is still pending, and nothing has been merged.
C15_Witness ==
    /\ fpc = "awaitAll"
    /\ Len(ftopics) = 3
    /\ fstatus[1] = "pending"
    /\ fstatus[3] = "ok" /\ fresults[3] # << >>
    /\ fret = << >>

(***************************************************************************)
(* A toggle without a session.                                             *)
(***************************************************************************)
\* C16: a toggle of topic t by a user who has no Selection Session (never
\* opened, or removed by a commit) does not fail: the handler goes on to
\* update the keyboard, and the user's session afterwards is exactly {t},
\* whatever the user's Preference Record holds, which stays as it was.
C16_ToggleWithoutSession ==
    [][\A u \in Users, t \in Labels :
         (ToggleAction(u, t) /\ ~MapHas(selectionSession, u)) =>
             /\ MapHas(selectionSession', u)
             /\ MapGet(selectionSession', u) = << t >>
             /\ userPreferences' = userPreferences
             /\ \E h \in BagToSet(handlers') :
                   /\ handlers' = handlers (+) SetToBag({h})
                   /\ h.op = "toggle" /\ h.chatId = u /\ h.topic = t
                   /\ h.pc = "editMessageReplyMarkup"]_vars

\* After a commit removed the session, a toggle of a topic that is not in the
\* user's record made the session that topic alone.
C16_Witness ==
    \E u \in Users :
        /\ MapHas(userPreferences, u)
        /\ lastToggle[u].topic # ""
        /\ lastToggle[u].before = {}
        /\ lastToggle[u].topic \notin Range(MapGet(userPreferences, u))
        /\ MapHas(selectionSession, u)
        /\ MapGet(selectionSession, u) = << lastToggle[u].topic >>

(***************************************************************************)
(* The closed set of topics.                                               *)
(***************************************************************************)
\* C17: in every reachable state every topic held in a Selection Session or
\* in a Preference Record is one of the 8 topics of AVAILABLE_TOPICS,
\* whatever label the action id of a toggle carries.
C17_TopicsAreAvailable ==
    \A u \in Users :
        /\ SessionSet(selectionSession, u) \subseteq Range(AVAILABLE_TOPICS)
        /\ RecordSet(userPreferences, u) \subseteq Range(AVAILABLE_TOPICS)

\* C17, the records alone: no Preference Record holds a label that is not
\* a topic of AVAILABLE_TOPICS.
C17_RecordsAreAvailable ==
    \A u \in Users : RecordSet(userPreferences, u) \subseteq Range(AVAILABLE_TOPICS)

(***************************************************************************)
(* Lifetime of a Preference Record.                                        *)
(***************************************************************************)
\* C18: the Preference Store only grows: a user who has a Preference Record
\* has one after every step, whatever the step is; a record changes only by
\* the user's own commit, which replaces it by the selection as a whole.
C18_StoreOnlyGrows ==
    [][\A u \in Users :
         MapHas(userPreferences, u) =>
             /\ MapHas(userPreferences', u)
             /\ MapGet(userPreferences', u) # MapGet(userPreferences, u) =>
                   /\ DoneSelection(u)
                   /\ Range(MapGet(userPreferences', u)) = SessionSet(selectionSession, u)]_vars

\* Two users have records: the record of the first is still there after the
\* second user's commit and the digest that followed it.
C18_Witness ==
    /\ Len(userPreferences) = 2
    /\ Committed(completed)
    /\ completed.pc = "done"
    /\ completed.chatId = userPreferences[2].key

(***************************************************************************)
(* What changes the Preference Store, and what a digest is built from.     *)
(***************************************************************************)
\* A handler that is at the first await of sendDigestToUser.
PipelineEntered(h) ==
    h.pipeline # << >> /\ h.pc \in {"sendMessage:setup", "sendMessage:fetching"}

\* C19: only a successful commit changes the Preference Store: a step that
\* changes it is a commit of a non-empty selection (entry commands, toggles,
\* rejected commits, the steps of the send pipeline and ticks leave every
\* record as it was); and a send pipeline, started by a commit or by a tick,
\* takes as its topics the record of its user, committed earlier, never the
\* selection in progress.
C19_OnlyCommitWritesStore ==
    [][/\ userPreferences' # userPreferences =>
             \E u \in Users :
                 /\ DoneSelection(u)
                 /\ SessionSet(selectionSession, u) # {}
       /\ \A h \in BagToSet(handlers') \ BagToSet(handlers) :
             PipelineEntered(h) =>
                 /\ userPreferences' = userPreferences
                 /\ MapHas(userPreferences, h.pipeline[Len(h.pipeline)])
                 /\ h.topics = MapGet(userPreferences, h.pipeline[Len(h.pipeline)])]_vars

\* A digest is being fetched for the topics of a user's record while the
\* same user has a different selection in progress.
C19_Witness ==
    \E h \in BagToSet(handlers) :
        LET u == h.pipeline[Len(h.pipeline)]
        IN  /\ h.pc = "fetchMixedNews"
            /\ h.topics = MapGet(userPreferences, u)
            /\ SessionSet(selectionSession, u) # {}
            /\ SessionSet(selectionSession, u) # Range(h.topics)

(***************************************************************************)
(* One user's events and the other users' data.                            *)
(***************************************************************************)
\* The entry of a user in a Map: whether there is one, and its value.
EntryOf(m, v) == IF MapHas(m, v) THEN << TRUE, MapGet(m, v) >> ELSE << FALSE, << >> >>

OthersUntouched(u) ==
    \A v \in Users \ {u} :
        /\ EntryOf(selectionSession', v) = EntryOf(selectionSession, v)
        /\ EntryOf(userPreferences', v) = EntryOf(userPreferences, v)

\* C20: an event for user u (an entry command, a toggle, a commit) leaves
\* the Selection Session and the Preference Record of every other user as
\* they were, whatever handlers of other users are in flight; the steps of a
\* send to a user, and of a tick, change no session and no record at all.
C20_UsersIsolated ==
    [][/\ \A u \in Users :
             (\/ EntryCommand(u)
              \/ \E t \in Labels : ToggleAction(u, t)
              \/ DoneSelection(u)) => OthersUntouched(u)
       /\ nEvents' = nEvents =>
             /\ selectionSession' = selectionSession
             /\ userPreferences' = userPreferences]_vars

\* While the digest of a user who committed is being fetched, another user,
\* who pressed a toggle before that commit or after it, still has the
\* selection in progress and no record.
C20_Witness ==
    \E u \in Users, v \in Users, h \in BagToSet(handlers) :
        /\ u # v
        /\ Committed(h) /\ h.chatId = u /\ h.pc = "fetchMixedNews"
        /\ MapHas(userPreferences, u) /\ ~MapHas(selectionSession, u)
        /\ ~MapHas(userPreferences, v)
        /\ lastToggle[v].topic # ""
        /\ SessionSet(selectionSession, v) = {lastToggle[v].topic}

====
